---- MODULE Spec2Model ----
(***************************************************************************)
(* lea: the run command (src/lea/app/run.py).                              *)
(*                                                                         *)
(* A behaviour is a sequence of invocations of run() over one graph of     *)
(* views.  What survives from one invocation to the next is the cache      *)
(* artifact (.cache.pkl) and the tables of the backing store.  Inside one  *)
(* invocation the control thread drives the DAG's ready/done protocol and  *)
(* polls the futures of a thread pool; the pool's workers take the         *)
(* submitted jobs in FIFO order, at most `threads` at a time.              *)
(***************************************************************************)
EXTENDS Naturals, Sequences, FiniteSets, TLC

\* The largest worker count a run is started with (threads is 1..MaxThreads).
MaxThreads == 2

\* The managed views, in the order the DAG was built from them.
KeyOrder == <<"A", "B", "C">>

ViewKeys == {KeyOrder[i] : i \in 1..Len(KeyOrder)}

\* A table of the backing store that no view of the graph stands for.
OrphanKey == "X"

Pos(k) == CHOOSE i \in 1..Len(KeyOrder) : KeyOrder[i] = k

\* Every graph over the views whose edges go from a view to earlier views:
\* up to renaming, every cycle-free graph of this size (make_dag rejects cycles).
Graphs ==
    {g \in [ViewKeys -> SUBSET ViewKeys] :
        \A k \in ViewKeys : \A d \in g[k] : Pos(d) < Pos(k)}

NoJobs == [k \in ViewKeys |-> "none"]

\* No translation is under way.
NoConv == [step |-> "none"]

VARIABLES
    \* what persists across invocations
    deps,                   \* view.dependencies of every view of the DAG, as view keys
    cacheFile,              \* the set pickled in .cache.pkl ({} when the file is absent)
    tables,                 \* the keys of the tables of the backing store: at first
                            \* every view has been built once and one table is an orphan
    \* the arguments of run()
    select, freeze_unselected, print_views, dry, silent, fresh, threads, fail_fast,
    \* the locals of run()
    selected_view_keys,
    table_reference_mapping,
    cache,
    execution_order,
    jobs_started_at,        \* the keys of the dict, in insertion order
    jobs_ended_at,
    exceptions,
    skipped,
    \* the DAG's scheduling state
    dagDone,                \* the keys done() was called for
    dagPassedOut,           \* the keys get_ready() has returned
    \* the thread pool
    jobKind,                \* per view: "none", "noop", "print", "materialize"
    jobState,               \* per view: "none", "queued", "running", "ok", "fail"
    workQueue,              \* submitted and not yet taken by a worker
    \* the control thread
    pc,                     \* "idle", "mapping", "orphans", "load", "ready", "poll",
                            \* "save", "summary", "returned", "raised"
    raisedAt,               \* where the exception that left run() was raised
    \* what the backend was asked to do in this invocation
    materialized,           \* views materialize_view was called for
    deleted,                \* the keys delete_view_key was called with, in call order
    cacheAtStart,           \* the cache artifact as it was when run() was entered
    \* the client's translation between view keys and table references
    conv                    \* one translation there and back: its inputs, the table
                            \* reference, the view key that came back, the step reached

persistent == <<deps, cacheFile, tables>>
args == <<select, freeze_unselected, print_views, dry, silent, fresh, threads, fail_fast>>
locals == <<selected_view_keys, table_reference_mapping, cache, execution_order,
            jobs_started_at, jobs_ended_at, exceptions, skipped>>
dagVars == <<dagDone, dagPassedOut>>
poolVars == <<jobKind, jobState, workQueue>>
ctrl == <<pc, raisedAt>>
effects == <<materialized, deleted, cacheAtStart>>
vars == <<persistent, args, locals, dagVars, poolVars, ctrl, effects, conv>>

SeqToSet(s) == {s[i] : i \in 1..Len(s)}

----------------------------------------------------------------------------
(* The DAG's scheduling protocol *)

\* is_active(): some managed key is not done yet.
is_active(done) == done # ViewKeys

\* get_ready(): the keys not yet returned whose dependencies in the DAG are all
\* done, in the DAG's order.
RECURSIVE ReadyFrom(_, _, _)
ReadyFrom(i, done, passed) ==
    IF i > Len(KeyOrder) THEN <<>>
    ELSE LET k == KeyOrder[i]
             rest == ReadyFrom(i + 1, done, passed)
         IN IF k \notin passed /\ (deps[k] \cap ViewKeys) \subseteq done
            THEN <<k>> \o rest
            ELSE rest

\* get_ready() that forgets which keys it has returned.
get_ready_again == ReadyFrom(1, dagDone, {})

get_ready == ReadyFrom(1, dagDone, dagPassedOut)

----------------------------------------------------------------------------
(* Starting a run *)

\* dag.select(*select): a pattern that is a view's canonical name selects that view.
dag_select(patterns) == patterns \cap ViewKeys

\* selected_view_keys (run.py line 96)
SelectedViewKeys(patterns) ==
    IF patterns # {} THEN dag_select(patterns) ELSE ViewKeys

Init ==
    /\ deps \in Graphs
    /\ cacheFile \in SUBSET ViewKeys
    /\ tables = ViewKeys \cup {OrphanKey}
    /\ select = {} /\ freeze_unselected = FALSE /\ print_views = FALSE
    /\ dry = FALSE /\ silent = FALSE /\ fresh = FALSE /\ threads = 1
    /\ fail_fast = FALSE
    /\ selected_view_keys = {} /\ table_reference_mapping = {}
    /\ cache = {} /\ execution_order = <<>> /\ jobs_started_at = <<>>
    /\ jobs_ended_at = {} /\ exceptions = {} /\ skipped = {}
    /\ dagDone = {} /\ dagPassedOut = {}
    /\ jobKind = NoJobs /\ jobState = NoJobs /\ workQueue = <<>>
    /\ pc = "idle" /\ raisedAt = "none"
    /\ materialized = {} /\ deleted = <<>> /\ cacheAtStart = {}
    /\ conv = NoConv

\* run(...) is called: lines 86-100.
Run ==
    /\ pc = "idle"
    /\ \E sel \in SUBSET ViewKeys, fr, pv, dr, si, fs, ff \in BOOLEAN,
          th \in 1..MaxThreads :
        /\ select' = sel
        /\ freeze_unselected' = fr
        /\ print_views' = pv
        /\ dry' = dr
        /\ silent' = (pv \/ si)
        /\ fresh' = fs
        /\ fail_fast' = ff
        /\ threads' = th
        /\ selected_view_keys' = SelectedViewKeys(sel)
    /\ cacheAtStart' = cacheFile
    /\ pc' = "mapping"
    /\ UNCHANGED <<persistent, table_reference_mapping, cache, execution_order,
                   jobs_started_at, jobs_ended_at, exceptions, skipped, dagVars,
                   poolVars, raisedAt, materialized, deleted>>
    /\ UNCHANGED conv

\* _make_table_reference_mapping (lines 40-69).  With freeze_unselected the name
\* `select` read at line 64 is bound neither in the function nor in the module:
\* the read raises NameError, which leaves run().
MappingRaises == freeze_unselected

MappingDomain == ViewKeys

MakeMapping ==
    /\ pc = "mapping"
    /\ IF MappingRaises
       THEN /\ pc' = "raised"
            /\ raisedAt' = "mapping"
            /\ UNCHANGED table_reference_mapping
       ELSE /\ pc' = "orphans"
            /\ table_reference_mapping' = MappingDomain
            /\ UNCHANGED raisedAt
    /\ UNCHANGED <<persistent, args, selected_view_keys, cache, execution_order,
                   jobs_started_at, jobs_ended_at, exceptions, skipped, dagVars,
                   poolVars, effects>>
    /\ UNCHANGED conv

\* client.list_tables(): the tables of the store, each listed once.
TableOrder == KeyOrder \o <<OrphanKey>>

list_tables == SelectSeq(TableOrder, LAMBDA t : t \in tables)

\* line 113 negated, taking every listed table for an orphan.
IsOrphanAlways(t) == TRUE

\* lines 112-114: the table's view key is not in the DAG.
IsOrphan(t) == t \notin ViewKeys

\* line 115 without the test of dry.
DeletesOrphansAlways == TRUE

\* line 115
DeletesOrphans == ~dry

\* The body of the loop over the listed tables (lines 112-117) for one table,
\* on the record s of the store and of the calls of delete_view_key.
RemoveOrphan(s, t) ==
    IF ~IsOrphan(t) THEN s
    ELSE IF DeletesOrphans
         THEN [s EXCEPT !.tables = @ \ {t}, !.deleted = Append(@, t)]
         ELSE s

RECURSIVE RemoveOrphansFrom(_, _, _)
RemoveOrphansFrom(listed, i, s) ==
    IF i > Len(listed) THEN s
    ELSE RemoveOrphansFrom(listed, i + 1, RemoveOrphan(s, listed[i]))

\* Remove orphan views (lines 110-117).
RemoveOrphans ==
    /\ pc = "orphans"
    /\ LET s == RemoveOrphansFrom(list_tables, 1,
                                  [tables |-> tables, deleted |-> deleted])
       IN /\ tables' = s.tables
          /\ deleted' = s.deleted
    /\ pc' = "load"
    /\ UNCHANGED <<deps, cacheFile, args, locals, dagVars, poolVars, raisedAt,
                   materialized, cacheAtStart>>
    /\ UNCHANGED conv

\* The cache as loaded at line 157.
LoadedCache == IF fresh \/ cacheFile = {} THEN {} ELSE cacheFile

\* Lines 149-164: the empty bookkeeping, the loaded cache, dag.prepare().
LoadCache ==
    /\ pc = "load"
    /\ cache' = LoadedCache
    /\ execution_order' = <<>> /\ jobs_started_at' = <<>>
    /\ jobs_ended_at' = {} /\ exceptions' = {} /\ skipped' = {}
    /\ dagDone' = {} /\ dagPassedOut' = {}
    /\ jobKind' = NoJobs /\ jobState' = NoJobs /\ workQueue' = <<>>
    /\ pc' = "ready"
    /\ UNCHANGED <<persistent, args, selected_view_keys, table_reference_mapping,
                   raisedAt, effects>>
    /\ UNCHANGED conv

----------------------------------------------------------------------------
(* The poll loop, lines 165-210 *)

\* line 169 with the test left out: every ready key is taken as selected.
IsSelectedAlways(v) == TRUE

\* line 169
IsSelected(v) == v \in selected_view_keys

\* line 177: some dependency of the view is skipped or errored.
DependencyFailed(v, skp, exc) ==
    \E dep_key \in deps[v] : dep_key \in skp \/ dep_key \in exc

\* lines 183-195: the job submitted for a view.
JobFor(v) ==
    IF dry \/ v \in cache THEN "noop"
    ELSE IF print_views THEN "print"
    ELSE "materialize"

\* The body of the loop over get_ready() for one key (lines 168-197), on the
\* record s of what the loop has changed so far.
HandleReady(s, v) ==
    IF ~IsSelected(v)
    THEN [s EXCEPT !.done = @ \cup {v}]
    ELSE LET s1 == [s EXCEPT !.order = Append(@, v)]
         IN IF DependencyFailed(v, s1.skipped, exceptions)
            THEN [s1 EXCEPT !.skipped = @ \cup {v}, !.done = @ \cup {v}]
            ELSE [s1 EXCEPT !.kind[v] = JobFor(v),
                            !.state[v] = "queued",
                            !.queue = Append(@, v),
                            !.started = Append(@, v)]

RECURSIVE HandleBatch(_, _, _)
HandleBatch(batch, i, s) ==
    IF i > Len(batch) THEN s
    ELSE HandleBatch(batch, i + 1, HandleReady(s, batch[i]))

\* Line 165 and the first loop of the body: when the DAG is no longer active
\* the loop is left, otherwise every key of get_ready() is handled.
ReadyPhase ==
    /\ pc = "ready"
    /\ IF is_active(dagDone)
       THEN LET batch == get_ready
                s0 == [done |-> dagDone, order |-> execution_order,
                       skipped |-> skipped, kind |-> jobKind, state |-> jobState,
                       queue |-> workQueue, started |-> jobs_started_at]
                s == HandleBatch(batch, 1, s0)
            IN /\ dagPassedOut' = dagPassedOut \cup SeqToSet(batch)
               /\ dagDone' = s.done
               /\ execution_order' = s.order
               /\ skipped' = s.skipped
               /\ jobKind' = s.kind
               /\ jobState' = s.state
               /\ workQueue' = s.queue
               /\ jobs_started_at' = s.started
               /\ pc' = "poll"
       ELSE /\ pc' = "save"
            /\ UNCHANGED <<dagVars, execution_order, skipped, poolVars,
                           jobs_started_at>>
    /\ UNCHANGED <<persistent, args, selected_view_keys, table_reference_mapping,
                   cache, jobs_ended_at, exceptions, raisedAt, effects>>
    /\ UNCHANGED conv

\* line 202 without the call of done() on the future.
JobObservedEarly(v, ended) == v \notin ended

\* line 202: the job is not yet recorded as ended and its future is done.
JobObserved(v, ended) ==
    v \notin ended /\ jobState[v] \in {"ok", "fail"}

\* lines 206-208: the job's exception is raised again in the control thread;
\* the assignment to exceptions that follows the raise is never executed.
OnJobException(s, v) == [s EXCEPT !.raised = TRUE]

\* lines 203-208 for one observed job
OnJobDone(s, v) ==
    LET s1 == [s EXCEPT !.done = @ \cup {v}, !.ended = @ \cup {v}]
    IN IF jobState[v] = "fail" THEN OnJobException(s1, v) ELSE s1

\* the loop over jobs_started_at (lines 201-208); an exception ends it.
RECURSIVE PollFrom(_, _)
PollFrom(i, s) ==
    IF i > Len(jobs_started_at) \/ s.raised THEN s
    ELSE LET v == jobs_started_at[i]
         IN PollFrom(i + 1, IF JobObserved(v, s.ended) THEN OnJobDone(s, v) ELSE s)

PollPhase ==
    /\ pc = "poll"
    /\ LET s == PollFrom(1, [done |-> dagDone, ended |-> jobs_ended_at,
                             exc |-> exceptions, raised |-> FALSE])
       IN /\ dagDone' = s.done
          /\ jobs_ended_at' = s.ended
          /\ exceptions' = s.exc
          /\ pc' = IF s.raised THEN "raised" ELSE "ready"
          /\ raisedAt' = IF s.raised THEN "poll" ELSE raisedAt
    /\ UNCHANGED <<persistent, args, selected_view_keys, table_reference_mapping,
                   cache, execution_order, jobs_started_at, skipped, dagPassedOut,
                   poolVars, effects>>
    /\ UNCHANGED conv

----------------------------------------------------------------------------
(* The thread pool *)

Running == {v \in ViewKeys : jobState[v] = "running"}

\* A free worker takes the oldest submitted job and calls it.
JobStart ==
    /\ workQueue # <<>>
    /\ Cardinality(Running) < threads
    /\ LET v == Head(workQueue)
       IN /\ jobState' = [jobState EXCEPT ![v] = "running"]
          /\ materialized' = IF jobKind[v] = "materialize"
                             THEN materialized \cup {v} ELSE materialized
    /\ workQueue' = Tail(workQueue)
    /\ UNCHANGED <<persistent, args, locals, dagVars, jobKind, ctrl, deleted,
                   cacheAtStart>>
    /\ UNCHANGED conv

\* The called job returns or raises; _do_nothing only returns.
JobFinish(v, ok) ==
    /\ jobState[v] = "running"
    /\ ok \/ jobKind[v] # "noop"
    /\ jobState' = [jobState EXCEPT ![v] = IF ok THEN "ok" ELSE "fail"]
    /\ tables' = IF ok /\ jobKind[v] = "materialize" THEN tables \cup {v} ELSE tables
    /\ UNCHANGED <<deps, cacheFile, args, locals, dagVars, jobKind, workQueue, ctrl,
                   effects>>
    /\ UNCHANGED conv

----------------------------------------------------------------------------
(* After the loop, lines 212-251 *)

\* line 213
all_done == exceptions = {} /\ skipped = {}

\* lines 214-223 without the all_done case.
NewCacheKeepsAll ==
    cache \cup {v \in SeqToSet(execution_order) :
                   v \notin exceptions /\ v \notin skipped}

\* lines 214-223
NewCache ==
    IF all_done THEN {}
    ELSE cache \cup {v \in SeqToSet(execution_order) :
                        v \notin exceptions /\ v \notin skipped}

\* lines 224-227: a non-empty cache is written, an empty one removes the file.
SaveCache ==
    /\ pc = "save"
    /\ cache' = NewCache
    /\ cacheFile' = NewCache
    /\ pc' = "summary"
    /\ UNCHANGED <<deps, tables, args, selected_view_keys, table_reference_mapping,
                   execution_order, jobs_started_at, jobs_ended_at, exceptions,
                   skipped, dagVars, poolVars, raisedAt, effects>>
    /\ UNCHANGED conv

\* lines 245-251: whether the summary of errors ends by raising.
SummaryRaises == exceptions # {} /\ fail_fast

\* lines 229-251: a silent run returns at once.
Summary ==
    /\ pc = "summary"
    /\ IF ~silent /\ SummaryRaises
       THEN pc' = "raised" /\ raisedAt' = "fail_fast"
       ELSE pc' = "returned" /\ UNCHANGED raisedAt
    /\ UNCHANGED <<persistent, args, locals, dagVars, poolVars, effects>>
    /\ UNCHANGED conv

\* The process ends once run() has ended and the pool's workers have finished
\* the jobs they were given; the next invocation starts from empty locals.
Exit ==
    /\ pc \in {"returned", "raised"}
    /\ workQueue = <<>> /\ Running = {}
    /\ select' = {} /\ freeze_unselected' = FALSE /\ print_views' = FALSE
    /\ dry' = FALSE /\ silent' = FALSE /\ fresh' = FALSE /\ threads' = 1
    /\ fail_fast' = FALSE
    /\ selected_view_keys' = {} /\ table_reference_mapping' = {}
    /\ cache' = {} /\ execution_order' = <<>> /\ jobs_started_at' = <<>>
    /\ jobs_ended_at' = {} /\ exceptions' = {} /\ skipped' = {}
    /\ dagDone' = {} /\ dagPassedOut' = {}
    /\ jobKind' = NoJobs /\ jobState' = NoJobs
    /\ pc' = "idle" /\ raisedAt' = "none"
    /\ materialized' = {} /\ deleted' = <<>> /\ cacheAtStart' = {}
    /\ UNCHANGED <<persistent, workQueue>>
    /\ UNCHANGED conv

Next ==
    \/ Run
    \/ MakeMapping
    \/ RemoveOrphans
    \/ LoadCache
    \/ ReadyPhase
    \/ PollPhase
    \/ JobStart
    \/ \E v \in ViewKeys, ok \in BOOLEAN : JobFinish(v, ok)
    \/ SaveCache
    \/ Summary
    \/ Exit

Spec == Init /\ [][Next]_vars
----------------------------------------------------------------------------
(* The DuckDB client's translation between view keys and table references  *)
(* (src/lea/clients/duckdb.py).  A string is the sequence of its           *)
(* characters, a view key the sequence of its parts.                       *)

\* The most parts a translated view key has.
MaxKeyLen == 3

\* lea._SEP
SEP == <<"_", "_">>

DOT == <<".">>

\* self.path.stem
Stem == <<"d">>

\* The schema and name parts view keys are made of: the database's stem, two
\* other names and one with an underscore; none holds a dot or the separator.
Idents == {<<"d">>, <<"s">>, <<"t">>, <<"t", "_", "u">>}

KeyInputs == UNION {[1..n -> Idents] : n \in 2..MaxKeyLen}

\* sep.join(parts)
RECURSIVE Join(_, _)
Join(parts, sep) ==
    IF Len(parts) = 0 THEN <<>>
    ELSE IF Len(parts) = 1 THEN parts[1]
    ELSE parts[1] \o sep \o Join(Tail(parts), sep)

\* The index where sep first occurs in str, 0 when it does not.
RECURSIVE FindFrom(_, _, _)
FindFrom(str, sep, i) ==
    IF i + Len(sep) - 1 > Len(str) THEN 0
    ELSE IF SubSeq(str, i, i + Len(sep) - 1) = sep THEN i
    ELSE FindFrom(str, sep, i + 1)

\* str.split(sep, 1)
SplitOnce(str, sep) ==
    LET i == FindFrom(str, sep, 1)
    IN IF i = 0 THEN <<str>>
       ELSE <<SubSeq(str, 1, i - 1), SubSeq(str, i + Len(sep), Len(str))>>

\* str.split(sep)
RECURSIVE Split(_, _)
Split(str, sep) ==
    LET i == FindFrom(str, sep, 1)
    IN IF i = 0 THEN <<str>>
       ELSE <<SubSeq(str, 1, i - 1)>>
                \o Split(SubSeq(str, i + Len(sep), Len(str)), sep)

\* DuckDB._view_key_to_table_reference (lines 83-99); has_username says that
\* self.username is set.
view_key_to_table_reference(view_key, with_username, has_username) ==
    LET schema == Head(view_key)
        leftover == Tail(view_key)
        table_reference == schema \o DOT \o Join(leftover, SEP)
    IN IF with_username /\ has_username
       THEN Stem \o DOT \o table_reference
       ELSE table_reference

ValueError == [ok |-> FALSE, key |-> <<>>]

\* DuckDB._table_reference_to_view_key (lines 101-118): unpacking a split that
\* gave one piece into two names raises ValueError.
table_reference_to_view_key(table_reference) ==
    LET first == SplitOnce(table_reference, DOT)
    IN IF Len(first) # 2 THEN ValueError
       ELSE LET database == first[1]
                leftover == first[2]
            IN IF database = Stem
               THEN LET second == SplitOnce(leftover, DOT)
                    IN IF Len(second) # 2 THEN ValueError
                       ELSE [ok |-> TRUE,
                             key |-> <<second[1]>> \o Split(second[2], SEP)]
               ELSE [ok |-> TRUE, key |-> <<database>> \o Split(leftover, SEP)]

\* A view key and the arguments of its translation are given; the run command
\* is not running.
InitRefs ==
    /\ deps = [k \in ViewKeys |-> {}]
    /\ cacheFile = {}
    /\ tables = ViewKeys \cup {OrphanKey}
    /\ select = {} /\ freeze_unselected = FALSE /\ print_views = FALSE
    /\ dry = FALSE /\ silent = FALSE /\ fresh = FALSE /\ threads = 1
    /\ fail_fast = FALSE
    /\ selected_view_keys = {} /\ table_reference_mapping = {}
    /\ cache = {} /\ execution_order = <<>> /\ jobs_started_at = <<>>
    /\ jobs_ended_at = {} /\ exceptions = {} /\ skipped = {}
    /\ dagDone = {} /\ dagPassedOut = {}
    /\ jobKind = NoJobs /\ jobState = NoJobs /\ workQueue = <<>>
    /\ pc = "idle" /\ raisedAt = "none"
    /\ materialized = {} /\ deleted = <<>> /\ cacheAtStart = {}
    /\ \E k \in KeyInputs, wu, hu \in BOOLEAN :
          conv = [step |-> "key", view_key |-> k, with_username |-> wu,
                  has_username |-> hu]

ToTableReference ==
    /\ conv.step = "key"
    /\ conv' = [step |-> "reference",
                view_key |-> conv.view_key,
                with_username |-> conv.with_username,
                has_username |-> conv.has_username,
                table_reference |->
                    view_key_to_table_reference(conv.view_key, conv.with_username,
                                                conv.has_username)]
    /\ UNCHANGED <<persistent, args, locals, dagVars, poolVars, ctrl, effects>>

ToViewKey ==
    /\ conv.step = "reference"
    /\ conv' = [step |-> "back",
                view_key |-> conv.view_key,
                with_username |-> conv.with_username,
                has_username |-> conv.has_username,
                table_reference |-> conv.table_reference,
                result |-> table_reference_to_view_key(conv.table_reference)]
    /\ UNCHANGED <<persistent, args, locals, dagVars, poolVars, ctrl, effects>>

NextRefs == ToTableReference \/ ToViewKey

SpecRefs == InitRefs /\ [][NextRefs]_vars

----------------------------------------------------------------------------
(* The terms the properties are stated in *)

\* run() has ended, by returning or by an exception.
Finished == pc \in {"returned", "raised"}

\* run() has ended and had reached the poll loop.
FinishedAfterLoop == Finished /\ raisedAt # "mapping"

\* The job of v was submitted to the pool.
Submitted(v) == jobKind[v] # "none"

\* The loop has seen the job of v ended, and it ended with an exception.
JobFailed(v) == v \in jobs_ended_at /\ jobState[v] = "fail"

Succeeded(v) == v \in jobs_ended_at /\ jobState[v] = "ok"
Errored(v) == v \in exceptions
Skipped(v) == v \in skipped

BoolToNat(b) == IF b THEN 1 ELSE 0

\* The cache the invocation loaded, from the artifact as it was at its start.
LoadedAtStart == IF fresh \/ cacheAtStart = {} THEN {} ELSE cacheAtStart

RECURSIVE AncestorsUpTo(_, _)
AncestorsUpTo(v, n) ==
    IF n = 0 THEN {}
    ELSE deps[v] \cup UNION {AncestorsUpTo(d, n - 1) : d \in deps[v]}

\* Every view v depends on, directly or through other views.
Ancestors(v) == AncestorsUpTo(v, Len(KeyOrder))

Chain == [k \in ViewKeys |-> IF k = "B" THEN {"A"} ELSE IF k = "C" THEN {"B"} ELSE {}]

IndexOf(seq, x) == CHOOSE i \in 1..Len(seq) : seq[i] = x

----------------------------------------------------------------------------
(* C1 - C10 *)

\* C1: when run has ended, every selected view is in exactly one of the
\* statuses succeeded, errored, skipped.
C1_ExactlyOneTerminalStatus ==
    FinishedAfterLoop =>
        \A v \in selected_view_keys :
            BoolToNat(Succeeded(v)) + BoolToNat(Errored(v)) + BoolToNat(Skipped(v)) = 1

\* C2: a job that failed is recorded in the errored set under its key and the
\* failure does not leave the poll loop as an exception.
C2_FailureRecordedAsData ==
    \A v \in ViewKeys :
        JobFailed(v) => (v \in exceptions /\ raisedAt # "poll")

\* C3: when run has ended, every selected view with an errored or skipped
\* ancestor is marked skipped and no job was submitted for it.
C3_CascadingSkip ==
    FinishedAfterLoop =>
        \A v \in selected_view_keys :
            (\E a \in Ancestors(v) : JobFailed(a) \/ Errored(a) \/ Skipped(a))
                => (Skipped(v) /\ ~Submitted(v))

\* C4: when a run has ended with an errored or skipped view, the persisted cache
\* is the loaded cache united with the views that succeeded, and holds no
\* errored or skipped view; for the chain with B failing it is {A}.
C4_CachePersistedOnFailure ==
    (FinishedAfterLoop /\ \E v \in ViewKeys : JobFailed(v) \/ Errored(v) \/ Skipped(v))
        => /\ cacheFile = LoadedAtStart \cup {v \in ViewKeys : Succeeded(v)}
           /\ \A v \in cacheFile : ~JobFailed(v) /\ ~Errored(v) /\ ~Skipped(v)
           /\ (deps = Chain /\ selected_view_keys = ViewKeys /\ LoadedAtStart = {}
                 /\ JobFailed("B"))
               => (Succeeded("A") /\ Errored("B") /\ Skipped("C") /\ cacheFile = {"A"})

\* C5: in a run with fresh = false that loaded the cache K, when run has ended
\* every selected view of K had a no-op job or none, a submitted one only with
\* its dependencies done, and is skipped when a dependency failed or was
\* skipped; every other selected view with no such dependency was materialized.
C5_CachedViewsGatedAndSkipped ==
    (FinishedAfterLoop /\ ~fresh /\ ~dry /\ ~print_views) =>
        \A v \in selected_view_keys :
            LET bad == \E d \in deps[v] : JobFailed(d) \/ Errored(d) \/ Skipped(d)
            IN IF v \in LoadedAtStart
               THEN /\ v \notin materialized
                    /\ Submitted(v) => deps[v] \subseteq dagDone
                    /\ bad => Skipped(v)
               ELSE ~bad => v \in materialized

\* C6: a run that ended with no view errored and none skipped has left the
\* persisted cache empty, nothing changes the artifact until the next
\* invocation loads it, and with fresh = false that invocation loads what the
\* artifact holds.
C6_SuccessClearsCache ==
    /\ []((pc \in {"summary", "returned"} /\ exceptions = {} /\ skipped = {})
            => cacheFile = {})
    /\ [][(pc \in {"summary", "returned", "idle", "mapping", "orphans"})
             => (cacheFile' = cacheFile)]_vars
    /\ [][(pc = "load" /\ ~fresh) => (cache' = cacheFile)]_vars

\* C6 witness: a run over a part of the views that started from a non-empty
\* cache has returned and the artifact is empty.
C6_Witness ==
    /\ pc = "returned"
    /\ cacheAtStart # {} /\ ~fresh
    /\ selected_view_keys # ViewKeys
    /\ materialized # {}
    /\ cacheFile = {}

\* C7: an exception leaves run only when fail-fast is on and a view errored.
C7_FailureOnlyWithFailFast ==
    (pc = "raised" /\ raisedAt # "mapping") => (fail_fast /\ exceptions # {})

\* C8: with fail-fast on and a failed view, run ends by the one aggregate
\* exception, raised after the DAG has drained and the cache was saved.
C8_AggregateFailureAfterDrain ==
    (FinishedAfterLoop /\ fail_fast /\ \E v \in ViewKeys : JobFailed(v))
        => /\ pc = "raised" /\ raisedAt = "fail_fast"
           /\ ~is_active(dagDone)
           /\ \A v \in ViewKeys : Submitted(v) => v \in jobs_ended_at
           /\ cacheFile = NewCache

\* C9: a submitted view has every dependency done, and a dependency that had a
\* job has it finished; every view of execution_order comes after its selected
\* dependencies; a run of the chain with everything selected that returned has
\* the order A, B, C.
C9_DispatchAfterDependencies ==
    /\ \A v \in ViewKeys :
          Submitted(v) =>
              \A d \in deps[v] \cap ViewKeys :
                  /\ d \in dagDone
                  /\ Submitted(d) => jobState[d] \in {"ok", "fail"}
    /\ \A j \in 1..Len(execution_order) :
          \A d \in deps[execution_order[j]] \cap selected_view_keys :
              \E i \in 1..(j - 1) : execution_order[i] = d
    /\ (pc = "returned" /\ deps = Chain /\ selected_view_keys = ViewKeys)
          => execution_order = <<"A", "B", "C">>

\* C9 witness: on the chain with two workers the last view was submitted after
\* the jobs of the first two had run.
C9_Witness ==
    /\ deps = Chain /\ threads = 2
    /\ jobKind = [k \in ViewKeys |-> "materialize"]
    /\ jobState["A"] = "ok" /\ jobState["B"] = "ok" /\ jobState["C"] = "queued"
    /\ execution_order = <<"A", "B", "C">>

\* C10: a view that became ready and is not selected is done, has no job, and
\* is in none of execution_order, skipped, exceptions, jobs_started_at,
\* jobs_ended_at, nor was it materialized.
C10_UnselectedPassThrough ==
    \A v \in dagPassedOut \ selected_view_keys :
        /\ v \in dagDone
        /\ ~Submitted(v)
        /\ v \notin SeqToSet(execution_order)
        /\ v \notin skipped /\ v \notin exceptions
        /\ v \notin SeqToSet(jobs_started_at) /\ v \notin jobs_ended_at
        /\ v \notin materialized

\* C10 witness: an unselected view between two selected ones was passed
\* through and the selected view after it was materialized.
C10_Witness ==
    /\ deps = Chain /\ selected_view_keys = {"A", "C"}
    /\ "B" \in dagDone /\ ~Submitted("B")
    /\ "C" \in materialized
    /\ pc = "returned"

----------------------------------------------------------------------------
(* C11 - C20 *)

\* _make_table_reference_mapping has been called in this invocation.
MappingCalled == pc \notin {"idle", "mapping"}

\* The orphan-cleanup pass of this invocation is over.
OrphanPassDone == pc \notin {"idle", "mapping", "orphans"} /\ raisedAt # "mapping"

Count(seq, x) == Cardinality({i \in 1..Len(seq) : seq[i] = x})

\* C11: the mapping returned has every view of the DAG as its domain without
\* freeze_unselected and exactly the selected views with it.
C11_MappingDomain ==
    MappingCalled =>
        /\ raisedAt # "mapping"
        /\ table_reference_mapping =
              IF freeze_unselected THEN selected_view_keys ELSE ViewKeys

\* C12: with freeze_unselected and an empty selection list the mapping is
\* built (with a warning) and the run goes on to the orphan cleanup.
C12_FreezeWithoutSelectionGoesOn ==
    (freeze_unselected /\ select = {} /\ MappingCalled)
        => (raisedAt = "none" \/ raisedAt = "poll" \/ raisedAt = "fail_fast")

\* C13: once the orphan-cleanup pass is over, a listed table whose key is not
\* in the DAG was deleted exactly once when dry is false and not at all when
\* dry is true, and a table whose key is in the DAG was not deleted; before the
\* pass nothing was deleted.
C13_OrphansDeletedOnce ==
    /\ ~OrphanPassDone => deleted = <<>>
    /\ OrphanPassDone =>
          \A t \in tables \cup SeqToSet(deleted) :
              IF t \in ViewKeys \/ dry
              THEN Count(deleted, t) = 0 /\ t \in tables
              ELSE Count(deleted, t) = 1 /\ t \notin tables

\* C13 witness: a run with dry = false has deleted the orphan table and kept
\* the tables of the views.
C13_Witness ==
    /\ pc = "load" /\ ~dry
    /\ deleted = <<OrphanKey>>
    /\ tables = ViewKeys

\* C14: in print-only mode no table is materialized and none is deleted.
C14_PrintOnlyMutatesNothing ==
    print_views => (materialized = {} /\ deleted = <<>>)

\* No job is waiting for a worker or being run.
PoolIdle == workQueue = <<>> /\ Running = {}

\* C15: no view has more than one job submitted in an invocation, so no view
\* has two jobs waiting or running.
C15_OneJobPerView ==
    \A v \in ViewKeys :
        /\ Count(jobs_started_at, v) <= 1
        /\ Count(execution_order, v) <= 1
        /\ Count(workQueue, v) + BoolToNat(jobState[v] = "running") <= 1

\* C15 witness: with two workers the jobs of two views run at the same time
\* and that of the third waits, each submitted once.
C15_Witness ==
    /\ jobs_started_at = <<"A", "B", "C">>
    /\ Running = {"A", "B"}
    /\ workQueue = <<"C">>

\* C16: once run has ended and every submitted job has finished, the DAG is no
\* longer active: every managed view is done.
C16_EndsWithEveryViewDone ==
    (FinishedAfterLoop /\ PoolIdle) =>
        (~is_active(dagDone) /\ dagDone = ViewKeys)

\* The two views A and B, independent of each other, are what was selected,
\* neither is cached and the jobs are not no-ops; every submitted job has finished.
TwoIndependentJobs ==
    /\ FinishedAfterLoop /\ PoolIdle
    /\ deps["B"] = {} /\ selected_view_keys = {"A", "B"}
    /\ jobKind["A"] = "materialize" /\ jobKind["B"] = "materialize"

\* What one worker gives for these inputs: A's job ends first and its failure
\* leaves run before B's job is seen to have ended.
C17_OneWorkerReference ==
    (threads = 1 /\ TwoIndependentJobs /\ jobState["A"] = "fail")
        => (JobFailed("A") /\ "B" \notin jobs_ended_at)

\* C17: the jobs running at a time are never more than the workers, and for
\* fixed inputs and job outcomes the result is the one a single worker gives:
\* with A's job failing, B's job (succeeding or failing) is in the same final
\* status and the same failure reaches the caller.
C17_PoolSizeNeverChangesOutcome ==
    /\ Cardinality(Running) <= threads
    /\ (TwoIndependentJobs /\ jobState["A"] = "fail")
          => (JobFailed("A") /\ "B" \notin jobs_ended_at)

\* C18: while the orphan cleanup runs no job has been submitted, the cache is
\* saved with no job waiting or running, and the store's tables are deleted
\* and the cache artifact written by these two steps only.
C18_PersistedStateOutsidePool ==
    /\ [](pc = "orphans" => (PoolIdle /\ jobs_started_at = <<>> /\ jobKind = NoJobs))
    /\ [](pc = "save" => (PoolIdle /\ \A v \in ViewKeys :
                               Submitted(v) => jobState[v] \in {"ok", "fail"}))
    /\ [][(deleted' # deleted) => (pc = "orphans" \/ pc' = "idle")]_vars
    /\ [][(cacheFile' # cacheFile) => (pc = "save")]_vars

\* C18 witness: a run with two workers that deleted an orphan and materialized
\* views is about to save a cache that differs from the artifact.
C18_Witness ==
    /\ pc = "save" /\ threads = 2
    /\ deleted = <<OrphanKey>>
    /\ Cardinality(materialized) >= 2
    /\ cacheFile # {}

\* C20: in a dry run no table is materialized or deleted and the cache
\* artifact stays what it was when the run started.
C20_DryRunPersistsNothing ==
    dry => (materialized = {} /\ deleted = <<>> /\ cacheFile = cacheAtStart)

\* C19: a view key translated to a table reference and back is the view key
\* again, with and without the username, also when the schema is the stem.
C19_RoundTrip ==
    conv.step = "back" => conv.result = [ok |-> TRUE, key |-> conv.view_key]
====
